---- MODULE Spec2Model ----
(***************************************************************************)
(* The in-process sliding-window rate limiter of script.py                 *)
(* (check_rate_limit, RATE_LIMITS, RATE_LIMIT_WINDOW) and its only caller, *)
(* the send_dm tool handler.                                               *)
(*                                                                         *)
(* Time is the reading of time.time(), abstracted to whole seconds.  The   *)
(* remote API (tweepy) is an external collaborator: whether a call to it   *)
(* succeeds or raises is a nondeterministic choice.                        *)
(***************************************************************************)
EXTENDS Integers, Sequences, FiniteSets, TLC

VARIABLES
    now,          \* the reading time.time() returns at this moment
    RATE_LIMITS,  \* the module-level dict: endpoint key -> list of timestamps
    pc,           \* position of each send_dm invocation slot
    sends,        \* number of timestamps appended so far (caps the run)
    overlapped,   \* history: a check ran while another invocation was in flight
    decided,      \* history: per key, the first check since the last record
    target,       \* the endpoint key the callers of this run pass
    last          \* observation of the last call: operation, arguments, result

vars == <<now, RATE_LIMITS, pc, sends, overlapped, decided, target, last>>

----------------------------------------------------------------------------
(* Program constants *)

RATE_LIMIT_WINDOW == 15 * 60

TweetQuota == 300

DmQuota == 1000

RateLimitMsg == "Rate limit exceeded for DMs. Please wait before sending again."

SuccessMsg == "Successfully sent DM to user"

FailedMsg == "Failed to send DM"

(* Bounds of the exploration *)

\* send_dm invocations that can be in flight at once
NumTasks == 2

\* successful sends of the server after Init
MaxSends == 2

\* appends a caller of the limiter makes after LimiterInit
MaxRecords == 1

\* stale timestamps mixed into a stored history of LimiterInit
MaxStale == 1

Tasks == 1..NumTasks

Endpoints == {"tweet", "dm", "search"}

Limited == {"tweet", "dm"}

\* The clock readings explored: differences of 0, 1, 899, 900 (the boundary)
\* and more than 900 all occur between two of them.
Instants == {0, 1, 900, 1000}

----------------------------------------------------------------------------
(* check_rate_limit *)

\* RATE_LIMITS[endpoint] after "if endpoint not in RATE_LIMITS: ... = []"
Bucket(limits, endpoint) ==
    IF endpoint \in DOMAIN limits THEN limits[endpoint] ELSE << >>

\* variant: the boundary counted as inside the window
RetainedInclusive(t, time) == time - t <= RATE_LIMIT_WINDOW

\* the condition of the list comprehension: now - t < RATE_LIMIT_WINDOW
Retained(t, time) == time - t < RATE_LIMIT_WINDOW

\* [t for t in RATE_LIMITS[endpoint] if now - t < RATE_LIMIT_WINDOW]
Prune(ts, time) == SelectSeq(ts, LAMBDA t : Retained(t, time))

\* variant: the dict rebuilt with the one key
StoreAlone(limits, endpoint, ts) == [k \in {endpoint} |-> ts]

\* dict assignment RATE_LIMITS[endpoint] = ts
Store(limits, endpoint, ts) ==
    [k \in (DOMAIN limits) \cup {endpoint} |->
        IF k = endpoint THEN ts ELSE limits[k]]

\* variant: <= in place of <
WithinQuotaInclusive(endpoint, n) ==
    IF endpoint = "tweet" THEN n <= TweetQuota
    ELSE IF endpoint = "dm" THEN n <= DmQuota
    ELSE TRUE

\* variant: the tweet quota applied to dm as well
WithinQuotaShared(endpoint, n) ==
    IF endpoint = "tweet" THEN n < TweetQuota
    ELSE IF endpoint = "dm" THEN n < TweetQuota
    ELSE TRUE

\* the if / elif / return True chain on the pruned length
WithinQuota(endpoint, n) ==
    IF endpoint = "tweet" THEN n < TweetQuota
    ELSE IF endpoint = "dm" THEN n < DmQuota
    ELSE TRUE

\* variant: an allowed check records the event itself
check_and_record(limits, endpoint, time) ==
    LET pruned == Prune(Bucket(limits, endpoint), time)
        ok == WithinQuota(endpoint, Len(pruned))
    IN  [limits |-> Store(limits, endpoint,
                          IF ok THEN Append(pruned, time) ELSE pruned),
         ret    |-> ok]

\* check_rate_limit(endpoint) called when time.time() reads `time`:
\* the dict it leaves behind and the boolean it returns
check_rate_limit(limits, endpoint, time) ==
    LET pruned == Prune(Bucket(limits, endpoint), time)
    IN  [limits |-> Store(limits, endpoint, pruned),
         ret    |-> WithinQuota(endpoint, Len(pruned))]

\* RATE_LIMITS.setdefault(endpoint, []).append(time.time())
Record(limits, endpoint, time) ==
    Store(limits, endpoint, Append(Bucket(limits, endpoint), time))

----------------------------------------------------------------------------
(* Observation of a step *)

Undecided == [seen |-> FALSE, res |-> TRUE, moved |-> FALSE]

\* What the last call did: op on key by task at clock reading `at`, with
\* the dict as it was before the call, the boolean it produced, the message
\* a handler returned with (if it returned), and what `decided` held for the
\* key before the call.
Obs(op, key, task, res, msg) ==
    [op |-> op, key |-> key, task |-> task, res |-> res, msg |-> msg,
     at |-> now, before |-> RATE_LIMITS,
     again |-> IF key \in DOMAIN decided THEN decided[key] ELSE Undecided]

\* `decided` after a check of key returned res: the first check since the
\* last record of the key is remembered
AfterCheck(key, res) ==
    [decided EXCEPT ![key] =
        IF @.seen THEN @ ELSE [seen |-> TRUE, res |-> res, moved |-> FALSE]]

\* `decided` after a record of key
AfterRecord(key) == [decided EXCEPT ![key] = Undecided]

\* `decided` after the clock reading changed
AfterClock ==
    [k \in DOMAIN decided |->
        IF decided[k].seen THEN [decided[k] EXCEPT !.moved = TRUE]
        ELSE decided[k]]

NoLimits == [k \in {} |-> << >>]

Zeros(n) == [i \in 1..n |-> 0]

NoObs ==
    [op |-> "init", key |-> "", task |-> 0, res |-> TRUE, msg |-> "",
     at |-> 0, before |-> NoLimits, again |-> Undecided]

----------------------------------------------------------------------------
(* The server: send_dm invocations sharing RATE_LIMITS *)

\* The freshly imported module (RATE_LIMITS = {}), and the states that 999
\* and 1000 successful sends at clock reading 0 leave behind, from which the
\* dm quota is within reach of a few steps.

Init ==
    /\ now = 0
    /\ \/ RATE_LIMITS = NoLimits
       \/ \E k \in (DmQuota - 1)..DmQuota :
              RATE_LIMITS = [e \in {"dm"} |-> Zeros(k)]
    /\ pc = [p \in Tasks |-> "idle"]
    /\ sends = 0
    /\ overlapped = FALSE
    /\ decided = [e \in Endpoints |-> Undecided]
    /\ target = "dm"
    /\ last = NoObs

\* time passes: time.time() reads a later instant
Advance ==
    /\ \E t \in Instants : t > now /\ now' = t
    /\ decided' = AfterClock
    /\ UNCHANGED <<RATE_LIMITS, pc, sends, overlapped, target, last>>

\* the wall clock is set back: time.time() reads an earlier instant
Adjust ==
    /\ \E t \in Instants : t < now /\ now' = t
    /\ decided' = AfterClock
    /\ UNCHANGED <<RATE_LIMITS, pc, sends, overlapped, target, last>>

\* send_dm is invoked and runs to its first suspension.  The rate-limit
\* check comes first; a denial returns at once.  Otherwise the handler awaits
\* get_twitter_client(), a coroutine that holds no await of its own and so
\* runs through without yielding to the event loop, and calls
\* client.send_dm(...): either an exception ends the invocation with the
\* error message, or the handler is suspended at the await of the send.
CheckLimit(p) ==
    /\ pc[p] = "idle"
    /\ LET r == check_rate_limit(RATE_LIMITS, "dm", now)
       IN  /\ RATE_LIMITS' = r.limits
           /\ decided' = AfterCheck("dm", r.ret)
           /\ IF ~r.ret
              THEN /\ pc' = pc
                   /\ last' = Obs("allow", "dm", p, r.ret, RateLimitMsg)
              ELSE \/ /\ pc' = [pc EXCEPT ![p] = "send_dm"]
                      /\ last' = Obs("allow", "dm", p, r.ret, "")
                   \/ /\ pc' = pc
                      /\ last' = Obs("allow", "dm", p, r.ret, FailedMsg)
    /\ overlapped' = (overlapped \/ \E q \in Tasks \ {p} : pc[q] # "idle")
    /\ UNCHANGED <<now, sends, target>>

\* variant: the timestamp appended before the outcome of the send is known
SendDmRecordsFirst(p) ==
    /\ pc[p] = "send_dm"
    /\ pc' = [pc EXCEPT ![p] = "idle"]
    /\ sends < MaxSends
    /\ RATE_LIMITS' = Record(RATE_LIMITS, "dm", now)
    /\ sends' = sends + 1
    /\ decided' = AfterRecord("dm")
    /\ \/ last' = Obs("record", "dm", p, TRUE, SuccessMsg)
       \/ last' = Obs("send_failed", "dm", p, FALSE, FailedMsg)
    /\ UNCHANGED <<now, overlapped, target>>

\* await client.send_dm(...) completes: on success the timestamp is appended
\* and the success message returned, on an exception the error message
SendDm(p) ==
    /\ pc[p] = "send_dm"
    /\ pc' = [pc EXCEPT ![p] = "idle"]
    /\ \/ /\ sends < MaxSends
          /\ RATE_LIMITS' = Record(RATE_LIMITS, "dm", now)
          /\ sends' = sends + 1
          /\ decided' = AfterRecord("dm")
          /\ last' = Obs("record", "dm", p, TRUE, SuccessMsg)
       \/ /\ last' = Obs("send_failed", "dm", p, FALSE, FailedMsg)
          /\ UNCHANGED <<RATE_LIMITS, sends, decided>>
    /\ UNCHANGED <<now, overlapped, target>>

Next ==
    \/ Advance
    \/ Adjust
    \/ \E p \in Tasks : CheckLimit(p)
    \/ \E p \in Tasks : SendDm(p)

Spec == Init /\ [][Next]_vars

----------------------------------------------------------------------------
(* The limiter alone: check_rate_limit and the append applied to any key,  *)
(* from stored histories drawn from bounded sets                           *)

\* the quota table: tweet -> 300, dm -> 1000
Quota(endpoint) == IF endpoint = "tweet" THEN TweetQuota ELSE DmQuota

\* n timestamps of which z are 0 and the rest 1: the zeros first, or (alt)
\* at the even positions
Mixed(n, z, alt) ==
    [i \in 1..n |->
        IF (alt /\ i % 2 = 0 /\ i <= 2 * z) \/ (~alt /\ i <= z) THEN 0 ELSE 1]

\* n timestamps one second apart, from s on
Ramp(n, s) == [i \in 1..n |-> s + i - 1]

FreshCounts(endpoint) ==
    IF endpoint \in Limited
    THEN {0, 1} \cup ((Quota(endpoint) - 1)..(Quota(endpoint) + 1))
    ELSE {0, 1, DmQuota + 1}

Histories(endpoint) ==
    {Mixed(f + z, z, alt) :
        f \in FreshCounts(endpoint), z \in 0..MaxStale, alt \in BOOLEAN}
    \cup (IF endpoint \in Limited
          THEN {Ramp(n, s) :
                  n \in (Quota(endpoint) - 1)..Quota(endpoint), s \in {0, 1}}
          ELSE {})

\* One key is exercised per run; when it is not tweet the other keys hold a
\* bucket of their own, which a check of the target must leave alone.
LimiterInit ==
    /\ now = 0
    /\ target \in Endpoints
    /\ \E h \in Histories(target) :
          RATE_LIMITS =
              [k \in (IF target = "tweet" THEN {target} ELSE Endpoints) |->
                  IF k = target THEN h ELSE <<0, 1>>]
    /\ pc = [p \in Tasks |-> "idle"]
    /\ sends = 0
    /\ overlapped = FALSE
    /\ decided = [e \in Endpoints |-> Undecided]
    /\ last = NoObs

\* a caller invokes check_rate_limit(target)
AllowCall ==
    /\ LET r == check_rate_limit(RATE_LIMITS, target, now)
       IN  /\ RATE_LIMITS' = r.limits
           /\ decided' = AfterCheck(target, r.ret)
           /\ last' = Obs("allow", target, 0, r.ret, "")
    /\ UNCHANGED <<now, pc, sends, overlapped, target>>

\* a caller appends the current time to the bucket of target
RecordCall ==
    /\ sends < MaxRecords
    /\ RATE_LIMITS' = Record(RATE_LIMITS, target, now)
    /\ sends' = sends + 1
    /\ decided' = AfterRecord(target)
    /\ last' = Obs("record", target, 0, TRUE, "")
    /\ UNCHANGED <<now, pc, overlapped, target>>

LimiterNext ==
    \/ Advance
    \/ Adjust
    \/ AllowCall
    \/ RecordCall

LimiterSpec == LimiterInit /\ [][LimiterNext]_vars

\* the limiter under a clock that only moves forward, and does move
LiveNext ==
    \/ Advance
    \/ AllowCall
    \/ RecordCall

LiveSpec == LimiterInit /\ [][LiveNext]_vars /\ WF_vars(Advance)

----------------------------------------------------------------------------
(* Vocabulary of the properties *)

\* number of stored timestamps t with at - t < 900
InWindowCount(ts, at) == Cardinality({i \in DOMAIN ts : at - ts[i] < 900})

\* ts without every timestamp t with at - t >= 900, order kept
WithoutStale(ts, at) == SelectSeq(ts, LAMBDA t : ~(at - t >= 900))

\* strictly increasing, consecutive timestamps less than 900 apart
Spaced(ts) ==
    \A i \in 1..(Len(ts) - 1) : ts[i] < ts[i + 1] /\ ts[i + 1] - ts[i] < 900

Before == Bucket(last.before, last.key)

After == Bucket(RATE_LIMITS, last.key)

----------------------------------------------------------------------------
(* C1: as long as no two send_dm invocations have overlapped (every append *)
(* directly follows its own successful check), the bucket of every limited *)
(* key holds at most quota(key) timestamps.                                *)
C1_SequentialWithinQuota ==
    ~overlapped =>
        \A e \in Limited : Len(Bucket(RATE_LIMITS, e)) <= Quota(e)

C1_Witness ==
    /\ ~overlapped
    /\ last.op = "record"
    /\ Len(Bucket(RATE_LIMITS, "dm")) = DmQuota

(* C2: the limiter does not prevent the race.  An append that lands on a   *)
(* dm bucket already holding quota in-window timestamps happens only after *)
(* invocations have overlapped, and it is carried out all the same: the    *)
(* bucket then holds more in-window timestamps than the quota.             *)
C2_RaceNotPrevented ==
    (last.op = "record" /\ InWindowCount(Before, last.at) >= DmQuota) =>
        /\ overlapped
        /\ After = Append(Before, last.at)
        /\ InWindowCount(After, last.at) > DmQuota

C2_Witness ==
    /\ last.op = "record"
    /\ overlapped
    /\ InWindowCount(Before, last.at) = DmQuota
    /\ InWindowCount(After, last.at) = DmQuota + 1

(* C3: a denied check returns the fixed rate-limit message with no send    *)
(* attempt and no append; the send is awaited only after a check that      *)
(* returned true; a failed send returns the error message and appends      *)
(* nothing; a successful send appends exactly one timestamp, the time of   *)
(* its completion.                                                         *)
C3_SendDmOutcomes ==
    /\ (last.op = "allow" /\ ~last.res) =>
          /\ last.msg = RateLimitMsg
          /\ pc[last.task] = "idle"
          /\ After = WithoutStale(Before, last.at)
    /\ (last.op = "allow" /\ last.res) =>
          /\ last.msg \in {"", FailedMsg}
          /\ (pc[last.task] = "send_dm") = (last.msg = "")
          /\ After = WithoutStale(Before, last.at)
    /\ last.op = "send_failed" =>
          /\ last.msg = FailedMsg
          /\ pc[last.task] = "idle"
          /\ RATE_LIMITS = last.before
    /\ last.op = "record" =>
          /\ last.msg = SuccessMsg
          /\ pc[last.task] = "idle"
          /\ After = Append(Before, last.at)

C3_Witness ==
    /\ last.op = "send_failed"
    /\ Len(After) = DmQuota
    /\ sends > 0

(* C4: allow(endpoint) at time now returns true for a key outside the      *)
(* quota table whatever is stored, and for tweet and dm returns true       *)
(* exactly when fewer than quota stored timestamps t have now - t < 900.   *)
C4_AllowDecision ==
    last.op = "allow" =>
        /\ last.res \in BOOLEAN
        /\ IF last.key \notin Limited
           THEN last.res = TRUE
           ELSE last.res = (InWindowCount(Before, last.at) < Quota(last.key))

C4_Witness ==
    /\ last.op = "allow"
    /\ last.key = "dm"
    /\ Len(Before) > DmQuota
    /\ InWindowCount(Before, last.at) = DmQuota - 1
    /\ last.res = TRUE

(* C5 as stated: quota(x) stored records with strictly increasing          *)
(* timestamps, consecutive ones less than 900 apart, make the next         *)
(* allow(x) return false.                                                  *)
C5_Original ==
    (/\ last.op = "allow"
     /\ last.key \in Limited
     /\ Len(Before) = Quota(last.key)
     /\ Spaced(Before)) => last.res = FALSE

(* C5 amended: quota(x) stored records with strictly increasing            *)
(* timestamps make allow(x) return false when it is invoked while the      *)
(* earliest of them is less than 900 old.                                  *)
C5_DeniedWithinWindow ==
    (/\ last.op = "allow"
     /\ last.key \in Limited
     /\ Len(Before) = Quota(last.key)
     /\ Spaced(Before)
     /\ last.at - Before[1] < 900) => last.res = FALSE

C5_Witness ==
    /\ last.op = "allow"
    /\ last.key = "tweet"
    /\ Len(Before) = TweetQuota
    /\ Spaced(Before)
    /\ last.at - Before[1] = 899
    /\ last.res = FALSE

(* C6 as stated: in every state every stored timestamp t of every key has  *)
(* now - t < 900.                                                          *)
C6_Original ==
    \A e \in DOMAIN RATE_LIMITS :
        \A i \in DOMAIN RATE_LIMITS[e] : now - RATE_LIMITS[e][i] < 900

(* C6 amended: when allow(key) has returned, every timestamp t stored for  *)
(* that key has now - t < 900, now being the time of that check.           *)
C6_FreshAfterCheck ==
    last.op = "allow" =>
        \A i \in DOMAIN After : last.at - After[i] < 900

C6_Witness ==
    /\ last.op = "allow"
    /\ Len(After) > 0
    /\ Len(After) < Len(Before)

(* C7 as stated: an allow(x) that follows an earlier allow(x) with no      *)
(* record(x) in between returns what the first one returned.               *)
C7_Original ==
    (last.op = "allow" /\ last.again.seen) => last.res = last.again.res

(* C7 amended: an allow(x) that follows an earlier allow(x) with no        *)
(* record(x) and no change of the clock reading in between returns what    *)
(* the first one returned and leaves the bucket of x unchanged.            *)
C7_StableDecision ==
    (last.op = "allow" /\ last.again.seen /\ ~last.again.moved) =>
        /\ last.res = last.again.res
        /\ After = Before

C7_Witness ==
    /\ last.op = "allow"
    /\ last.again.seen
    /\ ~last.again.moved
    /\ ~last.res
    /\ Len(After) = Quota(last.key)

(* C8: a denial is not permanent.  An allow of a limited key invoked when  *)
(* every stored timestamp is at least 900 old prunes them all and returns  *)
(* true; and with time advancing, after a denial a moment comes at which   *)
(* allow would return true.                                                *)
C8_AllStalePruned ==
    (/\ last.op = "allow"
     /\ last.key \in Limited
     /\ \A i \in DOMAIN Before : last.at >= Before[i] + 900) =>
        (last.res = TRUE /\ After = << >>)

C8_Denied == last.op = "allow" /\ ~last.res

C8_Allowable == check_rate_limit(RATE_LIMITS, target, now).ret

C8_DenialNotPermanent == []C8_AllStalePruned /\ (C8_Denied ~> C8_Allowable)

C8_Witness ==
    /\ last.op = "allow"
    /\ last.key = "dm"
    /\ last.again.seen
    /\ ~last.again.res
    /\ Len(Before) >= DmQuota
    /\ \A i \in DOMAIN Before : last.at >= Before[i] + 900
    /\ last.res = TRUE

(* C9: the only effect of allow(endpoint) at time now is that the bucket   *)
(* of endpoint becomes the previous one (empty if absent) without every t  *)
(* with now - t >= 900, order kept; nothing is appended and every other    *)
(* key keeps its bucket.                                                   *)
C9_AllowEffect ==
    last.op = "allow" =>
        /\ DOMAIN RATE_LIMITS = (DOMAIN last.before) \cup {last.key}
        /\ After = WithoutStale(Before, last.at)
        /\ \A k \in (DOMAIN last.before) \ {last.key} :
              RATE_LIMITS[k] = last.before[k]

C9_Witness ==
    /\ last.op = "allow"
    /\ \E i \in DOMAIN Before : last.at - Before[i] = 900
    /\ \E i \in DOMAIN Before : last.at - Before[i] = 899
    /\ Before[1] > Before[2]
    /\ \E k \in (DOMAIN last.before) \ {last.key} : Len(last.before[k]) = 2

(* C10: with NumTasks invocation slots the dm bucket never holds more than *)
(* quota + NumTasks - 1 timestamps.                                        *)
C10_BoundedOvershoot ==
    Len(Bucket(RATE_LIMITS, "dm")) <= DmQuota + NumTasks - 1

C10_Witness ==
    Len(Bucket(RATE_LIMITS, "dm")) = DmQuota + NumTasks - 1

====
